---- MODULE Spec2Model ----
(***************************************************************************)
(* The URL status checker of url-detective (app/status-checker/actions):   *)
(* checkSingleUrl and its five probe strategies, and checkUrlStatuses, the *)
(* batch scheduler that fans checkSingleUrl out over slices of the input.  *)
(*                                                                         *)
(* Strings are sequences of tokens, each token a piece of URL text         *)
(* ("https://", "www.", "a.com", ":8080", "/p", "?q", " ").  An absent     *)
(* value (null, an optional field left out) is the empty sequence <<>> and *)
(* a present value v is <<v>>.                                             *)
(***************************************************************************)
EXTENDS Integers, Sequences, FiniteSets, TLC

VARIABLES
    urls,        \* the argument of the call: a sequence of URL strings
    pc,          \* where the caller is: "start", "await", "pause", "done",
                 \* "rejected" (checkUrlStatuses) or "single" (checkSingleUrl)
    totalUrls,   \* checkUrlStatuses: const totalUrls
    batchSize,   \* checkUrlStatuses: let batchSize
    i,           \* checkUrlStatuses: the loop variable
    batchNo,     \* how many batches have been started
    batch,       \* the checkSingleUrl calls of the current batch, in slice order
    results,     \* checkUrlStatuses: const results
    batchTime,   \* the last measured batch duration (ms), -1 before the first
    progress,    \* the progress values logged so far, oldest first
    delay,       \* the pause timer now pending (ms), 0 when none
    pauses,      \* how many pause timers have been set
    startedIn,   \* per input index: the batch its call was started in, 0 if none
    settled,     \* the input indices whose call has settled
    attempts,    \* checkSingleUrl alone: the fetches settled so far
    client       \* the page that calls checkUrlStatuses chunk by chunk and
                 \* renders the results, if any

vars == <<urls, pc, totalUrls, batchSize, i, batchNo, batch, results,
          batchTime, progress, delay, pauses, startedIn, settled, attempts,
          client>>

----------------------------------------------------------------------------
(* Bounds of the model.                                                    *)

\* Longest input list whose probes are interleaved one fetch at a time.
MaxUrls == 6

\* The lock-step runs take every input count 0..MaxCount, and SchedCounts.
MaxCount == 102

\* Most valid lines of the text a page run starts from.
MaxClientUrls == 25

\* The page renders every list of up to MaxShortList results, and lists of
\* up to MaxResults results, the live ones first.
MaxShortList == 2
MaxResults == 40

\* The number of URLs a fair run probes.
MaxProbed == 2

\* The scanning page: the most lines of its text and the most scans.
MaxLines == 2
MaxScans == 2

----------------------------------------------------------------------------
(* Strings.                                                                *)

WS == " "
NL == "\n"
HTTP == "http://"
HTTPS == "https://"
WWW == "www."

HostTokens == {WWW, "a.com", "not", "url"}
PortTokens == {":8080"}
PathTokens == {"/", "/p"}
QueryTokens == {"?q"}

\* F(v), v evaluated once.
Once(v, F(_)) == CHOOSE r \in {F(x) : x \in {v}} : TRUE

RECURSIVE TrimStart(_)
TrimStart(s) ==
    IF s # <<>> /\ Head(s) = WS THEN TrimStart(Tail(s)) ELSE s

RECURSIVE TrimEnd(_)
TrimEnd(s) ==
    IF s # <<>> /\ s[Len(s)] = WS THEN TrimEnd(SubSeq(s, 1, Len(s) - 1)) ELSE s

\* String.prototype.trim
Trim(s) == TrimEnd(TrimStart(s))

\* String.prototype.startsWith, for a one-token prefix
StartsWith(s, t) == s # <<>> /\ Head(s) = t

\* The longest prefix of s made of tokens of T.
RECURSIVE TakeWhile(_, _)
TakeWhile(s, T) ==
    IF s # <<>> /\ Head(s) \in T THEN <<Head(s)>> \o TakeWhile(Tail(s), T) ELSE <<>>

DropN(s, k) == SubSeq(s, k + 1, Len(s))

(* new URL(s), on strings scheme host [port] [path] [query]: the parse     *)
(* fails when the scheme is missing, the host is empty or a character that *)
(* no host, port, path or query may hold (a space) is left over.  The      *)
(* pathname of a URL written without a path is "/".                        *)
ParseURL(s) ==
    IF ~(StartsWith(s, HTTP) \/ StartsWith(s, HTTPS))
    THEN [ok |-> FALSE]
    ELSE LET afterScheme == Tail(s)
             host == TakeWhile(afterScheme, HostTokens)
             afterHost == DropN(afterScheme, Len(host))
             port == IF afterHost # <<>> /\ Head(afterHost) \in PortTokens
                     THEN <<Head(afterHost)>> ELSE <<>>
             afterPort == DropN(afterHost, Len(port))
             path == TakeWhile(afterPort, PathTokens)
             afterPath == DropN(afterPort, Len(path))
             query == TakeWhile(afterPath, QueryTokens)
             rest == DropN(afterPath, Len(query))
         IN  IF host = <<>> \/ rest # <<>>
             THEN [ok |-> FALSE]
             ELSE [ok |-> TRUE,
                   protocol |-> IF Head(s) = HTTPS THEN "https:" ELSE "http:",
                   hostname |-> host,
                   port |-> port,
                   pathname |-> IF path = <<>> THEN <<"/">> ELSE path,
                   search |-> query]

\* `${protocol}//` as a token
SchemeOf(protocol) == IF protocol = "https:" THEN HTTPS ELSE HTTP

\* URL.href: the serialisation of a parsed URL
Href(u) == <<SchemeOf(u.protocol)>> \o u.hostname \o u.port \o u.pathname \o u.search

\* String.prototype.replace(t, ''): s without the first occurrence of token t
RECURSIVE RemoveFirst(_, _)
RemoveFirst(s, t) ==
    IF s = <<>> THEN <<>>
    ELSE IF Head(s) = t THEN Tail(s)
    ELSE <<Head(s)>> \o RemoveFirst(Tail(s), t)

----------------------------------------------------------------------------
(* Numbers.  A JavaScript number is an IEEE 754 double: a non-negative one *)
(* is a record [m, e] of value m * 2^e, m a sequence of bits, the most     *)
(* significant first and without leading zeros (<<>> is 0).  Division and  *)
(* multiplication give the exact result rounded to DoubleBits significant  *)
(* bits, to nearest and a tie to the even one.  The arithmetic on bit      *)
(* sequences goes through limbs of LimbBits bits, the least significant    *)
(* limb first.                                                             *)

\* The significand of a double, in bits.
DoubleBits == 53

LimbBits == 15
LimbBase == 2 ^ LimbBits

\* The n lowest bits of the natural number x, the most significant first.
FixedBits(x, n) == Once(x, LAMBDA v : [k \in 1..n |-> (v \div 2 ^ (n - k)) % 2])

\* b without its leading zeros
StripZeros(b) ==
    Once(b, LAMBDA v :
        LET ones == {k \in DOMAIN v : v[k] # 0}
        IN  IF ones = {} THEN <<>>
            ELSE SubSeq(v, CHOOSE k \in ones : \A m \in ones : k <= m, Len(v)))

\* The bits of a natural number below 2^30.
NatBits(x) == StripZeros(FixedBits(x, 30))

\* The value of at most 30 bits.
RECURSIVE BitsNat(_)
BitsNat(b) ==
    Once(b, LAMBDA v :
        IF v = <<>> THEN 0
        ELSE IF Len(v) = 1 THEN v[1]
        ELSE LET h == Len(v) \div 2
             IN  BitsNat(SubSeq(v, 1, h)) * 2 ^ (Len(v) - h)
                   + BitsNat(SubSeq(v, h + 1, Len(v))))

Zeros(n) == [k \in 1..n |-> 0]

BitsToLimbs(b) ==
    Once(b, LAMBDA v :
        LET n == (Len(v) + LimbBits - 1) \div LimbBits
        IN  Once(Zeros(n * LimbBits - Len(v)) \o v, LAMBDA padded :
                [k \in 1..n |->
                    BitsNat(SubSeq(padded, (n - k) * LimbBits + 1,
                                   (n - k + 1) * LimbBits))]))

RECURSIVE LimbsToBits(_)
LimbsToBits(l) ==
    IF l = <<>> THEN <<>> ELSE LimbsToBits(Tail(l)) \o FixedBits(Head(l), LimbBits)

\* l * c + carry on limbs, c and carry below 2^15
RECURSIVE MulAddLimbs(_, _, _)
MulAddLimbs(l, c, carry) ==
    IF l = <<>> THEN (IF carry = 0 THEN <<>> ELSE <<carry>>)
    ELSE Once(Head(l) * c + carry, LAMBDA t :
             <<t % LimbBase>> \o MulAddLimbs(Tail(l), c, t \div LimbBase))

\* The bit sequence x times c plus d, for natural numbers c, d below 2^15.
MulAddBits(x, c, d) ==
    Once(BitsToLimbs(x), LAMBDA l :
        Once(MulAddLimbs(l, c, d), LAMBDA product : StripZeros(LimbsToBits(product))))

\* The exact value (bits + a rest below the last bit, `sticky`) * 2^e, as a
\* double.
RoundToDouble(bits, e, sticky) ==
    Once(bits, LAMBDA v :
        IF Len(v) <= DoubleBits
        THEN [m |-> v, e |-> e]
        ELSE LET kept == SubSeq(v, 1, DoubleBits)
                 guard == v[DoubleBits + 1]
                 rest == sticky \/ \E k \in (DoubleBits + 2)..Len(v) : v[k] = 1
                 up == guard = 1 /\ (rest \/ kept[DoubleBits] = 1)
                 dropped == Len(v) - DoubleBits
             IN  Once(IF up THEN MulAddBits(kept, 1, 1) ELSE kept, LAMBDA m :
                     IF Len(m) > DoubleBits
                     THEN [m |-> SubSeq(m, 1, DoubleBits), e |-> e + dropped + 1]
                     ELSE [m |-> m, e |-> e + dropped]))

\* The first n limbs of r / b after the point, 0 <= r < b < 2^16, the most
\* significant first, and after them what is left of r.
RECURSIVE FracLimbs(_, _, _)
FracLimbs(r, b, n) ==
    IF n = 0 THEN <<r>>
    ELSE Once(r * LimbBase, LAMBDA t : <<t \div b>> \o FracLimbs(t % b, b, n - 1))

\* Limbs enough for DoubleBits + 1 significant bits of a fraction that is
\* not below 1 / 2^16.
FracLimbCount == 5

Reverse(s) == [k \in 1..Len(s) |-> s[Len(s) + 1 - k]]

\* a / b of two naturals, a < 2^30, 0 < b < 2^16
DoubleDiv(a, b) ==
    Once(FracLimbs(a % b, b, FracLimbCount), LAMBDA frac :
        RoundToDouble(
            StripZeros(NatBits(a \div b)
                         \o LimbsToBits(Reverse(SubSeq(frac, 1, FracLimbCount)))),
            0 - FracLimbCount * LimbBits,
            frac[FracLimbCount + 1] > 0))

\* x * c of a double and a natural below 2^15
DoubleMul(x, c) ==
    Once(x, LAMBDA v : RoundToDouble(MulAddBits(v.m, c, 0), v.e, FALSE))

\* Math.round(x), 0 <= x < 2^29: the integer nearest to x, a half rounded up
MathRound(x) ==
    Once(x, LAMBDA v :
        IF v.e >= 0
        THEN BitsNat(v.m \o Zeros(v.e))
        ELSE LET n == Len(v.m) + v.e
             IN  IF n < 0 THEN 0
                 ELSE BitsNat(SubSeq(v.m, 1, n)) + v.m[n + 1])

\* The integer nearest to the exact num / den, a half rounded up.
Round(num, den) == (2 * num + den) \div (2 * den)

----------------------------------------------------------------------------
(* The network.  A fetch settles with a response (its status and the URL   *)
(* it ended on after redirects) or with an error (DNS, refused, TLS, or    *)
(* the abort of the timeout timer), after some time.                       *)

\* The budget of one attempt, in ms.
Timeout == 8000

NetworkError == [ok |-> FALSE, status |-> 0, url |-> <<>>]
Response(status, url) == [ok |-> TRUE, status |-> status, url |-> url]

\* Where a redirect may end.
RedirectTargets == {<<HTTPS, "a.com", "/p">>}

\* The statuses a response may carry.
Statuses == {200, 301, 404, 500}

\* response.statusText
StatusText(status) ==
    CASE status = 200 -> "OK"
      [] status = 301 -> "Moved Permanently"
      [] status = 404 -> "Not Found"
      [] status = 500 -> "Internal Server Error"
      [] OTHER -> ""

\* Fetches without the abort timer: one of an http:// URL is never answered
\* and never settles.
FetchOutcomesNoAbort(req, statuses, redirects) ==
    Once(ParseURL(req.url), LAMBDA urlObj :
        IF ~urlObj.ok
        THEN {NetworkError}
        ELSE IF urlObj.protocol = "http:"
        THEN {}
        ELSE {NetworkError}
             \cup {Response(st, u) : st \in statuses,
                                     u \in {Href(urlObj)} \cup redirects})

\* What fetch(req.url) may settle with: it rejects at once on a string that
\* is no URL, and otherwise the network decides: an error (the abort of
\* the timeout timer among them), or a response with one of `statuses` from
\* the URL asked for or from one of `redirects`.
FetchOutcomes(req, statuses, redirects) ==
    Once(ParseURL(req.url), LAMBDA urlObj :
        IF ~urlObj.ok
        THEN {NetworkError}
        ELSE {NetworkError}
             \cup {Response(st, u) : st \in statuses,
                                     u \in {Href(urlObj)} \cup redirects})

----------------------------------------------------------------------------
(* The strategies.  Each is an async function with one await, on fetch:    *)
(* XFetch is the request it issues (<<>> when it issues none and returns   *)
(* null), X is what it returns once that fetch has settled with outcome o  *)
(* after d ms (<<>> for null).                                             *)

tryHeadRequestFetch(url) == <<[method |-> "HEAD", url |-> url]>>

tryHeadRequest(url, o, d) ==
    IF o.ok
    THEN <<[url |-> url,
            finalUrl |-> o.url,
            status |-> o.status,
            statusText |-> StatusText(o.status),
            responseTime |-> d,
            error |-> <<>>,
            method |-> "HEAD"]>>
    ELSE <<>>

tryGetRequestFetch(url) == <<[method |-> "GET", url |-> url]>>

tryGetRequest(url, o, d) ==
    IF o.ok
    THEN <<[url |-> url,
            finalUrl |-> o.url,
            status |-> o.status,
            statusText |-> StatusText(o.status),
            responseTime |-> d,
            error |-> <<>>,
            method |-> "GET"]>>
    ELSE <<>>

wwwUrl(urlObj) ==
    <<SchemeOf(urlObj.protocol), WWW>> \o urlObj.hostname \o urlObj.pathname
        \o urlObj.search

tryWithWwwFetch(url) ==
    Once(ParseURL(url), LAMBDA urlObj :
        IF urlObj.ok /\ ~StartsWith(urlObj.hostname, WWW)
        THEN tryGetRequestFetch(wwwUrl(urlObj))
        ELSE <<>>)

tryWithWww(url, o, d) ==
    Once(ParseURL(url), LAMBDA urlObj : tryGetRequest(wwwUrl(urlObj), o, d))

nonWwwUrl(urlObj) ==
    <<SchemeOf(urlObj.protocol)>> \o RemoveFirst(urlObj.hostname, WWW)
        \o urlObj.pathname \o urlObj.search

\* A without-www strategy that asks whatever the host is.
tryWithoutWwwFetchAlways(url) ==
    Once(ParseURL(url), LAMBDA urlObj :
        IF urlObj.ok THEN tryGetRequestFetch(nonWwwUrl(urlObj)) ELSE <<>>)

tryWithoutWwwFetch(url) ==
    Once(ParseURL(url), LAMBDA urlObj :
        IF urlObj.ok /\ StartsWith(urlObj.hostname, WWW)
        THEN tryGetRequestFetch(nonWwwUrl(urlObj))
        ELSE <<>>)

tryWithoutWww(url, o, d) ==
    Once(ParseURL(url), LAMBDA urlObj : tryGetRequest(nonWwwUrl(urlObj), o, d))

\* A switch that keeps the protocol.
newProtocolSame(urlObj) == urlObj.protocol

newProtocol(urlObj) == IF urlObj.protocol = "https:" THEN "http:" ELSE "https:"

newUrl(urlObj) ==
    <<SchemeOf(newProtocol(urlObj))>> \o urlObj.hostname \o urlObj.pathname
        \o urlObj.search

trySwitchProtocolFetch(url) ==
    Once(ParseURL(url), LAMBDA urlObj :
        IF urlObj.ok THEN tryGetRequestFetch(newUrl(urlObj)) ELSE <<>>)

trySwitchProtocol(url, o, d) ==
    Once(ParseURL(url), LAMBDA urlObj : tryGetRequest(newUrl(urlObj), o, d))

\* const strategies: the names, in the order of the array
strategies ==
    <<"HEAD request", "GET request", "with www", "without www", "switch protocol">>

\* strategies[k].fn(), up to its await
StrategyFetch(k, urlToCheck) ==
    CASE strategies[k] = "HEAD request" -> tryHeadRequestFetch(urlToCheck)
      [] strategies[k] = "GET request" -> tryGetRequestFetch(urlToCheck)
      [] strategies[k] = "with www" -> tryWithWwwFetch(urlToCheck)
      [] strategies[k] = "without www" -> tryWithoutWwwFetch(urlToCheck)
      [] strategies[k] = "switch protocol" -> trySwitchProtocolFetch(urlToCheck)

\* strategies[k].fn(), from its await on
StrategyReturn(k, urlToCheck, o, d) ==
    CASE strategies[k] = "HEAD request" -> tryHeadRequest(urlToCheck, o, d)
      [] strategies[k] = "GET request" -> tryGetRequest(urlToCheck, o, d)
      [] strategies[k] = "with www" -> tryWithWww(urlToCheck, o, d)
      [] strategies[k] = "without www" -> tryWithoutWww(urlToCheck, o, d)
      [] strategies[k] = "switch protocol" -> trySwitchProtocol(urlToCheck, o, d)

----------------------------------------------------------------------------
(* checkSingleUrl.  A call is a record: the argument url, the normalised   *)
(* urlToCheck, its state ("fetching": suspended on the fetch req of        *)
(* strategy strat; "returned": resolved with result; "threw": rejected),   *)
(* the requests it has issued (log) and the time since its startTime       *)
(* (elapsed).                                                              *)

\* let urlToCheck: trimmed, with https:// put before a string without scheme
Normalize(url) ==
    LET trimmed == Trim(url)
    IN  IF ~StartsWith(trimmed, HTTP) /\ ~StartsWith(trimmed, HTTPS)
        THEN <<HTTPS>> \o trimmed
        ELSE trimmed

\* A validation record that leaves the error out.
InvalidResultNoError(url, elapsed) ==
    [url |-> url,
     finalUrl |-> url,
     status |-> 400,
     statusText |-> "Invalid URL",
     responseTime |-> elapsed,
     error |-> <<>>,
     method |-> "validation"]

InvalidResult(url, elapsed) ==
    [url |-> url,
     finalUrl |-> url,
     status |-> 400,
     statusText |-> "Invalid URL",
     responseTime |-> elapsed,
     error |-> <<"Invalid URL format">>,
     method |-> "validation"]

\* The failure record of the checker before the strategy chain.
UnreachableResultLegacy(url, urlToCheck, elapsed) ==
    [url |-> url,
     finalUrl |-> url,
     status |-> 0,
     statusText |-> "Error",
     responseTime |-> elapsed,
     error |-> <<"An unknown error occurred.">>,
     method |-> "GET"]

\* A failure record whose finalUrl is the argument as it came.
UnreachableResultFinalAsGiven(url, urlToCheck, elapsed) ==
    [url |-> url,
     finalUrl |-> url,
     status |-> 0,
     statusText |-> "Unreachable",
     responseTime |-> elapsed,
     error |-> <<"All connection attempts failed. Site may be down, blocking server requests, or behind Cloudflare/firewall.">>,
     method |-> "failed"]

UnreachableResult(url, urlToCheck, elapsed) ==
    [url |-> url,
     finalUrl |-> urlToCheck,
     status |-> 0,
     statusText |-> "Unreachable",
     responseTime |-> elapsed,
     error |-> <<"All connection attempts failed. Site may be down, blocking server requests, or behind Cloudflare/firewall.">>,
     method |-> "failed"]

Returned(p, result) ==
    [p EXCEPT !.state = "returned", !.strat = 0, !.req = <<>>, !.result = <<result>>]

\* A loop that takes only 200 as a success.
IsSuccessOnly200(r) == r # <<>> /\ r[1].status = 200

\* A loop that also returns the responses of the 4xx range.
IsSuccessBelow500(r) == r # <<>> /\ r[1].status >= 200 /\ r[1].status < 500

\* A loop that returns whatever response a strategy got.
IsSuccessAnyResponse(r) == r # <<>>

\* if (result && result.status >= 200 && result.status < 400)
IsSuccess(r) == r # <<>> /\ r[1].status >= 200 /\ r[1].status < 400

\* The for loop from strategy k on, up to the next await or the return: a
\* strategy that issues no request returns null and the loop moves on.
RECURSIVE StrategyLoop(_, _)
StrategyLoop(p, k) ==
    IF k > Len(strategies)
    THEN Returned(p, UnreachableResult(p.url, p.urlToCheck, p.elapsed))
    ELSE Once(StrategyFetch(k, p.urlToCheck), LAMBDA f :
             IF f = <<>>
             THEN StrategyLoop(p, k + 1)
             ELSE [p EXCEPT !.state = "fetching", !.strat = k, !.req = f,
                            !.log = Append(@, f[1])])

\* checkSingleUrl without the validation of urlToCheck.
checkSingleUrlUnvalidated(url) ==
    StrategyLoop([url |-> url, urlToCheck |-> Normalize(url), state |-> "fetching",
                  strat |-> 0, req |-> <<>>, log |-> <<>>, elapsed |-> 0,
                  result |-> <<>>], 1)

\* checkSingleUrl(url), up to its first await or its return
checkSingleUrl(url) ==
    Once(Normalize(url), LAMBDA urlToCheck :
        LET p == [url |-> url, urlToCheck |-> urlToCheck, state |-> "fetching",
                  strat |-> 0, req |-> <<>>, log |-> <<>>, elapsed |-> 0,
                  result |-> <<>>]
        IN  IF ~ParseURL(urlToCheck).ok
            THEN Returned(p, InvalidResult(url, 0))
            ELSE StrategyLoop(p, 1))

\* The same with no catch between the fetch and the caller: a failed fetch
\* rejects the call.
StrategySettledUncaught(p, o, d) ==
    LET result == StrategyReturn(p.strat, p.urlToCheck, o, d)
        q == [p EXCEPT !.elapsed = @ + d]
    IN  IF ~o.ok
        THEN [q EXCEPT !.state = "threw", !.strat = 0, !.req = <<>>]
        ELSE IF IsSuccess(result)
        THEN Returned(q, result[1])
        ELSE StrategyLoop(q, p.strat + 1)

\* checkSingleUrl from the await of strategy p.strat on, its fetch settled
\* with outcome o after d ms.
StrategySettled(p, o, d) ==
    LET result == StrategyReturn(p.strat, p.urlToCheck, o, d)
        q == [p EXCEPT !.elapsed = @ + d]
    IN  IF IsSuccess(result)
        THEN Returned(q, result[1])
        ELSE StrategyLoop(q, p.strat + 1)

----------------------------------------------------------------------------
(* checkSingleUrl called alone, on every kind of input string and with     *)
(* every outcome of every fetch.                                           *)

ProbeInputs ==
    { <<"a.com">>,
      <<HTTPS, WWW, "a.com">>,
      <<HTTP, "a.com", ":8080", "/p", "?q">>,
      <<WS, "a.com", "/p", WS>>,
      <<WWW, "a.com", "?q">>,
      <<WWW>>,
      <<"not", WS, "url">>,
      <<HTTP>>,
      <<>> }

\* How long an attempt may take: at once, a while, the whole budget.
ProbeDurations == {0, 120, Timeout}

\* No page: checkSingleUrl or checkUrlStatuses is called directly.
NoClient ==
    [pc |-> "none", urlsInput |-> <<>>, validUrls |-> <<>>, i |-> 0,
     allResults |-> <<>>, results |-> <<>>, progress |-> <<>>,
     stats |-> <<>>, groups |-> <<>>,
     text |-> <<>>, maliciousFlags |-> <<>>, calls |-> <<>>, scans |-> 0]

Idle ==
    /\ totalUrls = 0 /\ batchSize = 0 /\ i = 0 /\ batchNo = 0
    /\ results = <<>> /\ batchTime = -1 /\ progress = <<>>
    /\ delay = 0 /\ pauses = 0
    /\ startedIn = <<>> /\ settled = {}

InitProbe ==
    /\ urls \in {<<u>> : u \in ProbeInputs}
    /\ pc = "single"
    /\ batch = <<>>
    /\ attempts = <<>>
    /\ client = NoClient
    /\ Idle

\* checkSingleUrl(urls[1]) is called and runs to its first await or return.
CallSingle ==
    /\ UNCHANGED client
    /\ pc = "single"
    /\ batch = <<>>
    /\ batch' = <<checkSingleUrl(urls[1])>>
    /\ UNCHANGED <<urls, pc, totalUrls, batchSize, i, batchNo, results,
                   batchTime, progress, delay, pauses, startedIn, settled, attempts>>

\* The pending fetch of the call settles.
SettleSingle ==
    /\ UNCHANGED client
    /\ pc = "single"
    /\ batch # <<>>
    /\ batch[1].state = "fetching"
    /\ \E o \in FetchOutcomes(batch[1].req[1], Statuses, RedirectTargets), d \in ProbeDurations :
         /\ batch' = <<StrategySettled(batch[1], o, d)>>
         /\ attempts' = Append(attempts,
                [strat |-> batch[1].strat, req |-> batch[1].req[1],
                 outcome |-> o, d |-> d])
    /\ UNCHANGED <<urls, pc, totalUrls, batchSize, i, batchNo, results,
                   batchTime, progress, delay, pauses, startedIn, settled>>

NextProbe == CallSingle \/ SettleSingle

SpecProbe == InitProbe /\ [][NextProbe]_vars

----------------------------------------------------------------------------
(* checkUrlStatuses.                                                       *)

\* The thresholds taken inclusive.
BatchSizeForInclusive(n) == IF n >= 500 THEN 15 ELSE IF n >= 100 THEN 10 ELSE 5

\* The largest batch size there is.
MaxBatchSize == 15

\* let batchSize = 5; if (totalUrls > 100) ...; if (totalUrls > 500) ...
BatchSizeFor(n) == IF n > 500 THEN 15 ELSE IF n > 100 THEN 10 ELSE 5

Min(a, b) == IF a < b THEN a ELSE b

\* Array.prototype.slice(from, to), 0 <= from <= to
Slice(s, from, to) == SubSeq(s, from + 1, Min(to, Len(s)))

\* urls.slice(i, batchSize): the end index taken for a length.
BatchSliceByLength(s, from, size) == Slice(s, from, size)

\* urls.slice(i, i + batchSize)
BatchSlice(s, from, size) == Slice(s, from, from + size)

\* The progress of the URLs before the batch only.
ProgressBeforeBatch(from, len, total) ==
    MathRound(DoubleMul(DoubleDiv(from, total), 100))

\* Math.round(((i + batch.length) / totalUrls) * 100)
ProgressOf(from, len, total) ==
    MathRound(DoubleMul(DoubleDiv(from + len, total), 100))

\* The long pause from 10000 ms on.
DelayForInclusive(time) == IF time >= 10000 THEN 500 ELSE 100

\* batchTime > 10000 ? 500 : 100
DelayFor(time) == IF time > 10000 THEN 500 ELSE 100

\* i + batchSize < urls.length
MoreBatches(from, size, n) == from + size < n

\* The calls of a batch that are still suspended on a fetch.
Fetching(b) == {j \in DOMAIN b : b[j].state = "fetching"}

\* Promise.race in the place of Promise.all: settled with the first call.
AnySettled(b) == b = <<>> \/ \E j \in DOMAIN b : b[j].state # "fetching"

\* Promise.all(batch.map(...)) has settled: it fulfils once every call has
\* returned, and rejects once one has thrown.
AllSettled(b) == Fetching(b) = {} \/ \E j \in DOMAIN b : b[j].state = "threw"

\* The results of a batch that probes a URL once however often it occurs.
RECURSIVE ResultsOfDistinct(_)
ResultsOfDistinct(b) ==
    IF b = <<>> THEN <<>>
    ELSE ResultsOfDistinct(SubSeq(b, 1, Len(b) - 1))
         \o (IF \E k \in 1..(Len(b) - 1) : b[k].url = b[Len(b)].url
             THEN <<>> ELSE b[Len(b)].result)

\* The results in the order in which the calls completed: the call that
\* took the shortest time first.
RECURSIVE ResultsOfCompletion(_)
ResultsOfCompletion(b) ==
    IF b = <<>> THEN <<>>
    ELSE LET j == CHOOSE j \in DOMAIN b :
                     \A k \in DOMAIN b :
                        \/ b[j].elapsed < b[k].elapsed
                        \/ b[j].elapsed = b[k].elapsed /\ j <= k
         IN  b[j].result
               \o ResultsOfCompletion(SubSeq(b, 1, j - 1) \o SubSeq(b, j + 1, Len(b)))

\* What Promise.all fulfils with: the results in the order of the calls.
RECURSIVE ResultsOf(_)
ResultsOf(b) == IF b = <<>> THEN <<>> ELSE Head(b).result \o ResultsOf(Tail(b))

RECURSIVE MaxElapsed(_)
MaxElapsed(b) ==
    IF b = <<>> THEN 0
    ELSE LET m == MaxElapsed(Tail(b))
         IN  IF Head(b).elapsed > m THEN Head(b).elapsed ELSE m

\* The durations a batch may be measured to take (the two sides of the
\* threshold of the pause), the probes' own time at the least.
BatchTimes == {10000, 10001}

\* The loop body from its top to the await of Promise.all: the calls of the
\* batch at `from` are all made in the same turn.
StartBatch(from, size) ==
    \E slice \in {BatchSlice(urls, from, size)} :
    \E calls \in {[j \in 1..Len(slice) |-> checkSingleUrl(slice[j])]} :
        /\ batch' = calls
        /\ batchNo' = batchNo + 1
        /\ startedIn' = [a \in DOMAIN startedIn |->
                           IF a > from /\ a <= from + Len(slice)
                           THEN batchNo + 1 ELSE startedIn[a]]
        /\ settled' = settled \cup {from + j : j \in DOMAIN calls \ Fetching(calls)}
        /\ pc' = "await"

\* checkUrlStatuses(urls), up to its first await or its return
Call ==
    /\ UNCHANGED client
    /\ pc = "start"
    /\ totalUrls' = Len(urls)
    /\ batchSize' = BatchSizeFor(Len(urls))
    /\ i' = 0
    /\ IF 0 < Len(urls)
       THEN StartBatch(0, batchSize')
       ELSE /\ pc' = "done"
            /\ UNCHANGED <<batch, batchNo, startedIn, settled>>
    /\ UNCHANGED <<urls, results, batchTime, progress, delay, pauses, attempts>>

\* The statuses and durations of the fetches of a batch.  A response that
\* is no success (a 404) leaves a call where a failed fetch leaves it; the
\* calls of checkSingleUrl alone take every status.
BatchStatuses == {200}
BatchDurations == {120}

\* The pending fetch of call j of the batch settles.
Settle(j) ==
    /\ UNCHANGED client
    /\ pc = "await"
    /\ j \in Fetching(batch)
    /\ \E o \in FetchOutcomes(batch[j].req[1], BatchStatuses, {}), d \in BatchDurations :
         \E q \in {StrategySettled(batch[j], o, d)} :
             /\ batch' = [batch EXCEPT ![j] = q]
             /\ settled' = IF q.state = "fetching" THEN settled
                           ELSE settled \cup {i + j}
    /\ UNCHANGED <<urls, pc, totalUrls, batchSize, i, batchNo, results,
                   batchTime, progress, delay, pauses, startedIn, attempts>>

\* Promise.all settles and the loop body runs to the await of the pause
\* timer, or to the return.
Join ==
    /\ UNCHANGED client
    /\ pc = "await"
    /\ AllSettled(batch)
    /\ IF \E j \in DOMAIN batch : batch[j].state = "threw"
       THEN /\ pc' = "rejected"
            /\ UNCHANGED <<i, results, batchTime, progress, delay, pauses>>
       ELSE /\ results' = results \o ResultsOf(batch)
            /\ progress' = Append(progress, ProgressOf(i, Len(batch), totalUrls))
            /\ \E t \in BatchTimes :
                 /\ t >= MaxElapsed(batch)
                 /\ batchTime' = t
                 /\ IF MoreBatches(i, batchSize, Len(urls))
                    THEN /\ delay' = DelayFor(t)
                         /\ pauses' = pauses + 1
                         /\ pc' = "pause"
                         /\ i' = i
                    ELSE /\ pc' = "done"
                         /\ i' = i + batchSize
                         /\ UNCHANGED <<delay, pauses>>
    /\ batch' = <<>>
    /\ UNCHANGED <<urls, totalUrls, batchSize, batchNo, startedIn, settled, attempts>>

\* The pause timer fires: i += batchSize and the next batch starts.
PauseDone ==
    /\ UNCHANGED client
    /\ pc = "pause"
    /\ i' = i + batchSize
    /\ StartBatch(i', batchSize)
    /\ delay' = 0
    /\ batchTime' = -1
    /\ UNCHANGED <<urls, totalUrls, batchSize, results, progress, pauses, attempts>>

\* The input strings of the interleaved runs: one that needs the scheme
\* put before it, one that is no URL.
BatchInputs == { <<"a.com">>, <<"not", WS, "url">> }

RECURSIVE SeqsUpTo(_, _)
SeqsUpTo(S, n) ==
    IF n = 0 THEN {<<>>}
    ELSE LET shorter == SeqsUpTo(S, n - 1)
         IN  shorter \cup {Append(q, x) : q \in shorter, x \in S}

InitCall ==
    /\ pc = "start"
    /\ totalUrls = 0 /\ batchSize = 0 /\ i = 0 /\ batchNo = 0
    /\ batch = <<>> /\ results = <<>> /\ batchTime = -1 /\ progress = <<>>
    /\ delay = 0 /\ pauses = 0
    /\ startedIn = [a \in DOMAIN urls |-> 0] /\ settled = {}
    /\ attempts = <<>>

Init ==
    /\ urls \in SeqsUpTo(BatchInputs, MaxUrls)
    /\ client = NoClient
    /\ InitCall

Next ==
    \/ Call
    \/ \E j \in DOMAIN batch : Settle(j)
    \/ Join
    \/ PauseDone

Spec == Init /\ [][Next]_vars

(* The same under the scheduling the runtime gives: a call that can run    *)
(* does run, every fetch settles (with a response, an error, or the abort  *)
(* of its timeout timer), Promise.all resumes the loop once it has         *)
(* settled, and every pause timer fires.                                   *)
Fairness ==
    /\ WF_vars(Call)
    /\ \A j \in 1..MaxBatchSize : WF_vars(Settle(j))
    /\ WF_vars(Join)
    /\ WF_vars(PauseDone)

\* The indices of the input that are probed, the others failing validation.
Probed(us) == {a \in DOMAIN us : ParseURL(Normalize(us[a])).ok}

\* The inputs of the fair runs: at most MaxProbed of the URLs are probed.
InitFair == Init /\ Cardinality(Probed(urls)) <= MaxProbed

SpecFair == InitFair /\ [][Next]_vars /\ Fairness

----------------------------------------------------------------------------
(* Long runs: every input count up to MaxCount and the counts around the   *)
(* batch-size thresholds, the fetches of a batch settling in lock step.    *)

SchedCounts == (0..MaxCount) \cup {200, 201, 499, 500, 501, 502, 1000}

\* Every pending fetch of the batch settles at once, with a 200 response.
SettleAll ==
    /\ UNCHANGED client
    /\ pc = "await"
    /\ Fetching(batch) # {}
    /\ batch' = [j \in DOMAIN batch |->
                   IF j \in Fetching(batch)
                   THEN StrategySettled(batch[j],
                            Response(200, Href(ParseURL(batch[j].req[1].url))), 120)
                   ELSE batch[j]]
    /\ settled' = settled \cup {i + j : j \in DOMAIN batch' \ Fetching(batch')}
    /\ UNCHANGED <<urls, pc, totalUrls, batchSize, i, batchNo, results,
                   batchTime, progress, delay, pauses, startedIn, attempts>>

(* The page (StatusCheckerClient.handleCheckStatuses): it splits the text  *)
(* of the input box into lines, keeps the lines that parse as URLs, and    *)
(* awaits one checkUrlStatuses call per chunk of them.  A progress value   *)
(* is a fraction num / den.                                                *)

\* const batchSize = 10 of handleCheckStatuses
ClientBatchSize == 10

\* String.prototype.split('\n'): the pieces between the line breaks, one
\* more than there are breaks; computed by halves, the last piece of the
\* left half and the first of the right half being one piece.
RECURSIVE Split(_)
Split(s) ==
    IF Len(s) = 0 THEN <<s>>
    ELSE IF Len(s) = 1 THEN (IF s[1] = NL THEN << <<>>, <<>> >> ELSE <<s>>)
    ELSE LET h == Len(s) \div 2
             l == Split(SubSeq(s, 1, h))
             r == Split(SubSeq(s, h + 1, Len(s)))
         IN  SubSeq(l, 1, Len(l) - 1) \o <<l[Len(l)] \o r[1]>> \o Tail(r)

\* Boolean(str): a string is truthy unless empty
Truthy(str) == str # <<>>

\* const isValidUrl
isValidUrl(str) == ParseURL(str).ok

\* urlsInput.split('\n').map(u => u.trim()).filter(Boolean).filter(isValidUrl)
ValidUrlsOf(urlsInput) ==
    LET lines == Split(urlsInput)
        trimmed == [k \in DOMAIN lines |-> Trim(lines[k])]
    IN  SelectSeq(SelectSeq(trimmed, Truthy), isValidUrl)

\* A request of the page to the server action: a fresh checkUrlStatuses(arg).
ServerCall(arg) ==
    /\ urls' = arg
    /\ pc' = "start"
    /\ totalUrls' = 0 /\ batchSize' = 0 /\ i' = 0 /\ batchNo' = 0
    /\ batch' = <<>> /\ results' = <<>> /\ batchTime' = -1 /\ progress' = <<>>
    /\ delay' = 0 /\ pauses' = 0
    /\ startedIn' = [a \in DOMAIN arg |-> 0] /\ settled' = {}

\* A page that passes every valid URL to the server in one call.
HandleCheckStatusesWhole ==
    /\ client.pc = "idle"
    /\ LET validUrls == ValidUrlsOf(client.urlsInput)
       IN  IF Len(validUrls) = 0
           THEN /\ client' = [client EXCEPT !.pc = "refused"]
                /\ UNCHANGED <<urls, pc, totalUrls, batchSize, i, batchNo, batch,
                               results, batchTime, progress, delay, pauses,
                               startedIn, settled>>
           ELSE /\ client' = [client EXCEPT !.pc = "calling",
                                            !.validUrls = validUrls,
                                            !.i = 0,
                                            !.allResults = <<>>,
                                            !.results = <<>>,
                                            !.progress = <<[num |-> 0, den |-> 1]>>]
                /\ ServerCall(validUrls)
    /\ UNCHANGED attempts

\* handleCheckStatuses, up to its first await or its return
HandleCheckStatuses ==
    /\ client.pc = "idle"
    /\ LET validUrls == ValidUrlsOf(client.urlsInput)
       IN  IF Len(validUrls) = 0
           THEN /\ client' = [client EXCEPT !.pc = "refused"]
                /\ UNCHANGED <<urls, pc, totalUrls, batchSize, i, batchNo, batch,
                               results, batchTime, progress, delay, pauses,
                               startedIn, settled>>
           ELSE /\ client' = [client EXCEPT !.pc = "calling",
                                            !.validUrls = validUrls,
                                            !.i = 0,
                                            !.allResults = <<>>,
                                            !.results = <<>>,
                                            !.progress = <<[num |-> 0, den |-> 1]>>]
                /\ ServerCall(Slice(validUrls, 0, ClientBatchSize))
    /\ UNCHANGED attempts

\* The awaited checkUrlStatuses call has returned: the loop body runs on to
\* the next call, or the loop ends.
ChunkDone ==
    /\ client.pc = "calling"
    /\ pc = "done"
    /\ LET allResults == client.allResults \o results
           next == client.i + ClientBatchSize
           more == next < Len(client.validUrls)
       IN  /\ client' = [client EXCEPT
                 !.allResults = allResults,
                 !.results = allResults,
                 !.progress = Append(@, [num |-> (client.i + Len(urls)) * 100,
                                         den |-> Len(client.validUrls)]),
                 !.i = next,
                 !.pc = IF more THEN "calling" ELSE "finished"]
           /\ IF more
              THEN ServerCall(Slice(client.validUrls, next, next + ClientBatchSize))
              ELSE UNCHANGED <<urls, pc, totalUrls, batchSize, i, batchNo, batch,
                               results, batchTime, progress, delay, pauses,
                               startedIn, settled>>
    /\ UNCHANGED attempts

\* m lines, each a URL with its scheme.
RECURSIVE UrlLines(_)
UrlLines(m) ==
    IF m = 0 THEN <<>>
    ELSE IF m = 1 THEN <<HTTPS, "a.com", NL>>
    ELSE UrlLines(m \div 2) \o UrlLines(m - m \div 2)

\* What may stand before them: nothing, a blank line, a line without scheme
\* (no URL to the page), a padded URL.
ClientPrefixes ==
    { <<>>, <<NL>>, <<WS, "a.com", NL>>, <<WS, HTTPS, "a.com", WS, NL>> }

InitDirect ==
    /\ urls \in {[a \in 1..n |-> <<"a.com">>] : n \in SchedCounts}
    /\ client = NoClient
    /\ InitCall

\* How many URL lines the input box holds: every count up to MaxClientUrls,
\* and the counts over the thresholds of the server's batch size.
ClientCounts == (0..MaxClientUrls) \cup {101, 501}

InitClient ==
    /\ urls = <<>>
    /\ client \in {[NoClient EXCEPT !.pc = "idle", !.urlsInput = pre \o UrlLines(m)] :
                      pre \in ClientPrefixes, m \in ClientCounts}
    /\ pc = "idle"
    /\ batch = <<>>
    /\ attempts = <<>>
    /\ Idle

InitSched == InitDirect \/ InitClient

NextSched ==
    \/ Call
    \/ SettleAll
    \/ Join
    \/ PauseDone
    \/ HandleCheckStatuses
    \/ ChunkDone

SpecSched == InitSched /\ [][NextSched]_vars

----------------------------------------------------------------------------
(* The page rendering its results: the summary cards (stats) and the       *)
(* status group of each row (getStatusGroup).                              *)

\* if (result.error): an optional string is truthy when it is there and is
\* not the empty string
ErrorTruthy(result) == result.error # <<>> /\ result.error[1] # ""

\* A classifier that looks at the status before the error.
getStatusGroupStatusFirst(result) ==
    IF result.status >= 200 /\ result.status < 300 THEN "live"
    ELSE IF result.status >= 300 /\ result.status < 400 THEN "redirect"
    ELSE IF result.status >= 400 /\ result.status < 500 THEN "deleted"
    ELSE "error"

\* const getStatusGroup
getStatusGroup(result) ==
    IF ErrorTruthy(result) THEN "error"
    ELSE IF result.status >= 200 /\ result.status < 300 THEN "live"
    ELSE IF result.status >= 300 /\ result.status < 400 THEN "redirect"
    ELSE IF result.status >= 400 /\ result.status < 500 THEN "deleted"
    ELSE "error"

\* The counter that the body of results.forEach in stats increments for r.
StatsCounter(r) ==
    IF ErrorTruthy(r) THEN "error"
    ELSE IF r.status >= 200 /\ r.status < 300 THEN "live"
    ELSE IF r.status >= 300 /\ r.status < 400 THEN "redirect"
    ELSE IF r.status >= 400 /\ r.status < 500 THEN "deleted"
    ELSE "error"

\* How often the loop increments counter c.
StatsCount(rs, c) == Cardinality({k \in DOMAIN rs : StatsCounter(rs[k]) = c})

\* totalResponseTime after the loop over rs[lo..hi], the elements with
\* `skipErrors` and a truthy error left out.
RECURSIVE TotalResponseTime(_, _, _, _)
TotalResponseTime(rs, lo, hi, skipErrors) ==
    IF lo > hi THEN 0
    ELSE IF lo = hi
    THEN (IF skipErrors /\ ErrorTruthy(rs[lo]) THEN 0 ELSE rs[lo].responseTime)
    ELSE TotalResponseTime(rs, lo, (lo + hi) \div 2, skipErrors)
         + TotalResponseTime(rs, (lo + hi) \div 2 + 1, hi, skipErrors)

\* A summary that averages over every result.
statsAverageOfAll(rs) ==
    LET total == Len(rs)
        live == StatsCount(rs, "live")
    IN  IF total = 0
        THEN [total |-> 0, live |-> 0, deleted |-> 0, redirect |-> 0, error |-> 0,
              avgResponseTime |-> 0, successRate |-> 0]
        ELSE [total |-> total,
              live |-> live,
              deleted |-> StatsCount(rs, "deleted"),
              redirect |-> StatsCount(rs, "redirect"),
              error |-> StatsCount(rs, "error"),
              avgResponseTime |->
                  MathRound(DoubleDiv(TotalResponseTime(rs, 1, total, FALSE), total)),
              successRate |-> MathRound(DoubleMul(DoubleDiv(live, total), 100))]

\* const stats
stats(rs) ==
    LET total == Len(rs)
        live == StatsCount(rs, "live")
        successfulChecks == Cardinality({k \in DOMAIN rs : ~ErrorTruthy(rs[k])})
        totalResponseTime == TotalResponseTime(rs, 1, total, TRUE)
    IN  IF total = 0
        THEN [total |-> 0, live |-> 0, deleted |-> 0, redirect |-> 0, error |-> 0,
              avgResponseTime |-> 0, successRate |-> 0]
        ELSE [total |-> total,
              live |-> live,
              deleted |-> StatsCount(rs, "deleted"),
              redirect |-> StatsCount(rs, "redirect"),
              error |-> StatsCount(rs, "error"),
              avgResponseTime |->
                  IF successfulChecks > 0
                  THEN MathRound(DoubleDiv(totalResponseTime, successfulChecks))
                  ELSE 0,
              successRate |->
                  IF total > 0
                  THEN MathRound(DoubleMul(DoubleDiv(live, total), 100))
                  ELSE 0]

\* The statuses and errors of the results rendered: the bounds of the
\* ranges of getStatusGroup and what lies outside them; no error, or one of
\* the two that checkSingleUrl writes.
PageStatuses == {0, 100, 200, 299, 300, 399, 400, 499, 500, 999}
PageErrors ==
    { <<>>, InvalidResult(<<>>, 0).error, UnreachableResult(<<>>, <<>>, 0).error }

\* A result of that status and error; the other fields in two variants.
PageResult(status, error, variant) ==
    IF variant = 1
    THEN [url |-> <<"a.com">>, finalUrl |-> <<HTTPS, "a.com", "/">>,
          status |-> status, statusText |-> StatusText(status),
          responseTime |-> 120, error |-> error, method |-> "HEAD"]
    ELSE [url |-> <<HTTPS, WWW, "a.com">>, finalUrl |-> <<HTTPS, "a.com", "/p">>,
          status |-> status, statusText |-> StatusText(status),
          responseTime |-> 7, error |-> error, method |-> "GET"]

PageResults ==
    {PageResult(st, er, v) : st \in PageStatuses, er \in PageErrors, v \in 1..2}

\* t results: l live ones, then redirects, 4xx and unreachable ones in turn.
MixedResults(l, t) ==
    LET others == << PageResult(300, <<>>, 1),
                     PageResult(499, <<>>, 2),
                     PageResult(0, UnreachableResult(<<>>, <<>>, 0).error, 1) >>
    IN  [k \in 1..t |-> IF k <= l THEN PageResult(200, <<>>, 1)
                        ELSE others[((k - l - 1) % 3) + 1]]

InitPage ==
    /\ urls = <<>>
    /\ client \in {[NoClient EXCEPT !.pc = "loaded", !.results = rs] :
                      rs \in SeqsUpTo(PageResults, MaxShortList)
                              \cup {MixedResults(l, t) : l \in 0..MaxResults,
                                                         t \in 0..MaxResults}}
    /\ pc = "idle"
    /\ batch = <<>>
    /\ attempts = <<>>
    /\ Idle

\* The page renders: the summary is computed and every row gets its group.
Render ==
    /\ client.pc = "loaded"
    /\ client' = [client EXCEPT
            !.pc = "rendered",
            !.stats = <<stats(client.results)>>,
            !.groups = [k \in DOMAIN client.results |->
                           getStatusGroup(client.results[k])]]
    /\ UNCHANGED <<urls, pc, totalUrls, batchSize, i, batchNo, batch, results,
                   batchTime, progress, delay, pauses, startedIn, settled, attempts>>

NextPage == Render

SpecPage == InitPage /\ [][NextPage]_vars

----------------------------------------------------------------------------
(* The scanning page (UrlProcessor) and the action checkUrl.  The page     *)
(* holds the lines of its text, the rows made of them once the debounce    *)
(* timer has fired (results), the map maliciousFlags and, in flight, the   *)
(* calls of checkUrl its scans have made.                                  *)

\* The reason checkUrl gives when the flow threw.
AnalysisError == <<"An error occurred during analysis.">>

\* What the model may answer: a verdict, with a reason or without one.
FlowOutputs ==
    { [isMalicious |-> TRUE, reason |-> <<"Known phishing domain">>],
      [isMalicious |-> FALSE, reason |-> <<>>] }

\* How intelligentMaliciousURLFlagging({url}) may end: the input schema
\* (z.string().url()) rejects a string that is no URL; on a URL the prompt
\* may throw, as may the validation of an output that is missing or
\* malformed, or the flow returns an output of the output schema.
intelligentMaliciousURLFlagging(url) ==
    IF ~ParseURL(url).ok
    THEN {[threw |-> TRUE, output |-> <<>>]}
    ELSE {[threw |-> TRUE, output |-> <<>>]}
         \cup {[threw |-> FALSE, output |-> <<x>>] : x \in FlowOutputs}

\* checkUrl without its try and catch: what the flow throws rejects the call.
checkUrlNoCatch(url, o) ==
    IF o.threw
    THEN [state |-> "rejected", result |-> <<>>]
    ELSE [state |-> "returned", result |-> o.output]

\* checkUrl(url) from its await on, the flow ended with o
checkUrl(url, o) ==
    IF o.threw
    THEN [state |-> "returned",
          result |-> <<[isMalicious |-> FALSE, reason |-> AnalysisError]>>]
    ELSE [state |-> "returned", result |-> o.output]

\* Map.prototype.set
MapSet(m, k, v) == [x \in DOMAIN m \cup {k} |-> IF x = k THEN v ELSE m[x]]

\* { ...newFlags.get(url), isLoading: true }
LoadingFlag(m, url) ==
    IF url \in DOMAIN m
    THEN [m[url] EXCEPT !.isLoading = TRUE]
    ELSE [isMalicious |-> <<>>, reason |-> <<>>, isLoading |-> TRUE]

\* { ...result, isLoading: false }
LoadedFlag(result) ==
    [isMalicious |-> <<result.isMalicious>>, reason |-> result.reason,
     isLoading |-> FALSE]

\* uniqueUrls.forEach((url) => newFlags.set(url, {..., isLoading: true}))
RECURSIVE SetLoading(_, _)
SetLoading(m, us) ==
    IF us = <<>> THEN m
    ELSE SetLoading(MapSet(m, Head(us), LoadingFlag(m, Head(us))), Tail(us))

\* The distinct elements of a list, in the order of their first occurrence.
RECURSIVE Distinct(_)
Distinct(us) ==
    IF us = <<>> THEN <<>>
    ELSE LET before == Distinct(SubSeq(us, 1, Len(us) - 1))
         IN  IF \E k \in DOMAIN before : before[k] = us[Len(us)]
             THEN before ELSE Append(before, us[Len(us)])

\* The lines a text may hold: a URL, and a string that is none.
ScanLines == { <<HTTPS, "a.com">>, <<"a.com">> }

\* setText: the user edits the text.
Type ==
    /\ client.pc = "scanner"
    /\ \E ls \in SeqsUpTo(ScanLines, MaxLines) :
         /\ ls # client.text
         /\ client' = [client EXCEPT !.text = ls]
    /\ UNCHANGED <<urls, pc, totalUrls, batchSize, i, batchNo, batch, results,
                   batchTime, progress, delay, pauses, startedIn, settled, attempts>>

\* The debounce timer fires and the effect makes the rows of the lines.
Debounce ==
    /\ client.pc = "scanner"
    /\ client.results # client.text
    /\ client' = [client EXCEPT !.results = client.text]
    /\ UNCHANGED <<urls, pc, totalUrls, batchSize, i, batchNo, batch, results,
                   batchTime, progress, delay, pauses, startedIn, settled, attempts>>

\* handleScanMalicious, with rows to scan: the flags of the unique URLs are
\* set loading and one call of checkUrl is made for each.
handleScanMalicious ==
    /\ client.pc = "scanner"
    /\ client.scans < MaxScans
    /\ LET uniqueUrls == Distinct(client.results)
       IN  /\ uniqueUrls # <<>>
           /\ client' = [client EXCEPT
                  !.scans = @ + 1,
                  !.maliciousFlags = SetLoading(@, uniqueUrls),
                  !.calls = @ \o [k \in DOMAIN uniqueUrls |->
                                    [scan |-> client.scans + 1,
                                     url |-> uniqueUrls[k],
                                     state |-> "pending",
                                     threw |-> FALSE,
                                     result |-> <<>>]]]
    /\ UNCHANGED <<urls, pc, totalUrls, batchSize, i, batchNo, batch, results,
                   batchTime, progress, delay, pauses, startedIn, settled, attempts>>

\* The flow of call c ends, checkUrl returns and the callback that awaited
\* it sets the flag of its URL.
CheckUrlDone(c) ==
    /\ client.pc = "scanner"
    /\ c \in DOMAIN client.calls
    /\ client.calls[c].state = "pending"
    /\ \E o \in intelligentMaliciousURLFlagging(client.calls[c].url) :
         LET q == checkUrl(client.calls[c].url, o)
             call == [client.calls[c] EXCEPT !.state = q.state,
                                             !.threw = o.threw,
                                             !.result = q.result]
         IN  client' = [client EXCEPT
                 !.calls[c] = call,
                 !.maliciousFlags =
                     IF q.state = "returned"
                     THEN MapSet(@, call.url, LoadedFlag(q.result[1]))
                     ELSE @]
    /\ UNCHANGED <<urls, pc, totalUrls, batchSize, i, batchNo, batch, results,
                   batchTime, progress, delay, pauses, startedIn, settled, attempts>>

\* handleClear
handleClear ==
    /\ client.pc = "scanner"
    /\ client' = [client EXCEPT !.text = <<>>, !.maliciousFlags = <<>>]
    /\ client' # client
    /\ UNCHANGED <<urls, pc, totalUrls, batchSize, i, batchNo, batch, results,
                   batchTime, progress, delay, pauses, startedIn, settled, attempts>>

InitScan ==
    /\ urls = <<>>
    /\ client = [NoClient EXCEPT !.pc = "scanner"]
    /\ pc = "idle"
    /\ batch = <<>>
    /\ attempts = <<>>
    /\ Idle

NextScan ==
    \/ Type
    \/ Debounce
    \/ handleScanMalicious
    \/ \E c \in DOMAIN client.calls : CheckUrlDone(c)
    \/ handleClear

SpecScan == InitScan /\ [][NextScan]_vars

----------------------------------------------------------------------------
(* Properties of checkSingleUrl, checked under SpecProbe.                  *)

\* A fetch outcome that the loop takes as a success.
SuccessOutcome(o) == o.ok /\ o.status >= 200 /\ o.status < 400

\* The string, normalised, is no URL.
FailsValidation(url) == ~ParseURL(Normalize(url)).ok

(* C2: a string that still fails URL parsing after trimming and scheme     *)
(* normalisation gets status 400, "Invalid URL", "Invalid URL format",     *)
(* method "validation", and no request is ever issued for it.  The strings *)
(* "http://", "not a url" and "" are such strings.                         *)
C2_ValidationGate ==
    /\ \A j \in DOMAIN batch :
         FailsValidation(batch[j].url) =>
            /\ batch[j].state = "returned"
            /\ batch[j].log = <<>>
            /\ attempts = <<>>
            /\ batch[j].result[1].status = 400
            /\ batch[j].result[1].statusText = "Invalid URL"
            /\ batch[j].result[1].error = <<"Invalid URL format">>
            /\ batch[j].result[1].method = "validation"
    /\ urls[1] \in {<<HTTP>>, <<"not", WS, "url">>, <<>>} => FailsValidation(urls[1])

C2_Witness ==
    /\ pc = "single"
    /\ batch # <<>>
    /\ urls[1] = <<"not", WS, "url">>
    /\ batch[1].state = "returned"
    /\ batch[1].result[1].status = 400
    /\ batch[1].log = <<>>

\* The request that strategy k makes for urlToCheck has the shape of that
\* strategy.
RequestFits(k, req, urlToCheck) ==
    CASE strategies[k] = "HEAD request" ->
            req = [method |-> "HEAD", url |-> urlToCheck]
      [] strategies[k] = "GET request" ->
            req = [method |-> "GET", url |-> urlToCheck]
      [] strategies[k] = "with www" ->
            /\ req.method = "GET"
            /\ urlToCheck[2] # WWW
            /\ req.url[2] = WWW
      [] strategies[k] = "without www" ->
            /\ req.method = "GET"
            /\ urlToCheck[2] = WWW
            /\ Len(req.url) < 2 \/ req.url[2] # WWW
      [] strategies[k] = "switch protocol" ->
            /\ req.method = "GET"
            /\ req.url[1] # urlToCheck[1]

(* C3: the strategies are attempted in the order HEAD, GET, with-www,      *)
(* without-www, protocol-switch; a request is issued only after every      *)
(* earlier one has settled without a status in [200,400); a status in      *)
(* [200,400) is returned at once and nothing is requested after it; a HEAD *)
(* response of 200 gives method "HEAD" and the HEAD request alone.         *)
C3_StrategyOrder ==
    LET p == batch[1]
        n == Len(p.log)
    IN  (pc = "single" /\ batch # <<>>) =>
        /\ Len(attempts) = IF p.state = "fetching" THEN n - 1 ELSE n
        /\ \A a \in DOMAIN attempts :
             /\ attempts[a].req = p.log[a]
             /\ RequestFits(attempts[a].strat, attempts[a].req, p.urlToCheck)
             /\ a > 1 => attempts[a - 1].strat < attempts[a].strat
             /\ a < n => ~SuccessOutcome(attempts[a].outcome)
             /\ SuccessOutcome(attempts[a].outcome) =>
                  /\ a = n
                  /\ p.state = "returned"
                  /\ p.result[1].status = attempts[a].outcome.status
                  /\ p.result[1].finalUrl = attempts[a].outcome.url
        /\ n > 0 => p.log[1].method = "HEAD"
        /\ p.state = "fetching" =>
             /\ p.req = <<p.log[n]>>
             /\ RequestFits(p.strat, p.log[n], p.urlToCheck)
             /\ attempts # <<>> => attempts[n - 1].strat < p.strat
        /\ (attempts # <<>> /\ attempts[1].outcome.ok /\ attempts[1].outcome.status = 200) =>
             /\ p.state = "returned"
             /\ p.result[1].method = "HEAD"
             /\ p.log = <<[method |-> "HEAD", url |-> p.urlToCheck]>>

C3_Witness ==
    /\ pc = "single"
    /\ batch # <<>>
    /\ Len(attempts) = 3
    /\ attempts[3].strat = 3
    /\ attempts[3].outcome.ok /\ attempts[3].outcome.status = 301
    /\ batch[1].state = "returned"

(* C4: a valid URL on which every applicable strategy ends in a network    *)
(* failure gets status 0, "Unreachable", a non-empty error and method      *)
(* "failed".                                                               *)
C4_FallbackExhaustion ==
    LET p == batch[1]
    IN  ( /\ pc = "single"
          /\ batch # <<>>
          /\ ~FailsValidation(p.url)
          /\ p.state = "returned"
          /\ \A a \in DOMAIN attempts : ~attempts[a].outcome.ok )
        =>
        /\ attempts # <<>>
        /\ p.result[1].status = 0
        /\ p.result[1].statusText = "Unreachable"
        /\ p.result[1].error # <<>>
        /\ p.result[1].error[1] # ""
        /\ p.result[1].method = "failed"

C4_Witness ==
    /\ pc = "single"
    /\ batch # <<>>
    /\ batch[1].state = "returned"
    /\ Len(attempts) = 4
    /\ \A a \in DOMAIN attempts : ~attempts[a].outcome.ok /\ attempts[a].d = Timeout
    /\ batch[1].result[1].status = 0

C14_ResultInvariant ==
    LET p == batch[1]
        r == p.result[1]
    IN  (pc = "single" /\ batch # <<>> /\ p.state = "returned") =>
        /\ r.status = 0 \/ (r.status >= 100 /\ r.status <= 599)
        /\ r.error # <<>> <=> (r.status = 0 \/ FailsValidation(p.url))
        /\ r.error # <<>> => r.error[1] # ""
        /\ (attempts # <<>> /\ SuccessOutcome(attempts[Len(attempts)].outcome)) =>
             /\ r.error = <<>>
             /\ r.status = attempts[Len(attempts)].outcome.status
        /\ r.method \in {"validation", "failed"} => r.error # <<>>

C14_Witness ==
    /\ pc = "single"
    /\ batch # <<>>
    /\ batch[1].state = "returned"
    /\ Len(attempts) = 2
    /\ attempts[2].outcome.ok /\ attempts[2].outcome.status = 301
    /\ batch[1].result[1].status = 301
    /\ batch[1].result[1].error = <<>>

(* C15: whatever path a call takes (success, invalid, unreachable), the    *)
(* url of its result is the input string exactly as supplied: not the      *)
(* trimmed or normalised string, not a www or protocol variant.            *)
C15_OriginalUrlPreserved ==
    (pc = "single" /\ batch # <<>> /\ batch[1].state = "returned") =>
        batch[1].result[1].url = urls[1]

(* C16 as claimed: on total failure and on validation failure the finalUrl *)
(* of the result is the input string as supplied, also when the input      *)
(* needed normalising.                                                     *)
C16_FailureFinalUrlIsInput ==
    LET r == batch[1].result[1]
    IN  ( /\ pc = "single" /\ batch # <<>> /\ batch[1].state = "returned"
          /\ r.method \in {"failed", "validation"} )
        => r.finalUrl = urls[1]

\* The input trimmed, with https:// put before it when it starts with
\* neither http:// nor https://.
NormalizedInput(url) ==
    IF Trim(url) # <<>> /\ Trim(url)[1] \in {HTTP, HTTPS}
    THEN Trim(url)
    ELSE <<HTTPS>> \o Trim(url)

(* C16 as amended: on validation failure the finalUrl is the input string  *)
(* as supplied; on total failure (status 0, "Unreachable") the url is the  *)
(* input as supplied and the finalUrl is the normalised input (trimmed,    *)
(* https:// put before a string without scheme), which is the input itself *)
(* exactly when the input needed no normalising.                           *)
C16_FailureFinalUrl ==
    LET r == batch[1].result[1]
    IN  (pc = "single" /\ batch # <<>> /\ batch[1].state = "returned") =>
        /\ r.method = "validation" => r.finalUrl = urls[1] /\ r.url = urls[1]
        /\ r.status = 0 =>
             /\ r.method = "failed"
             /\ r.url = urls[1]
             /\ r.finalUrl = NormalizedInput(urls[1])
             /\ r.finalUrl = urls[1] <=> NormalizedInput(urls[1]) = urls[1]

C16_Witness ==
    /\ pc = "single"
    /\ batch # <<>>
    /\ urls[1] = <<WS, "a.com", "/p", WS>>
    /\ batch[1].state = "returned"
    /\ batch[1].result[1].status = 0
    /\ batch[1].result[1].finalUrl = <<HTTPS, "a.com", "/p">>

\* The sum of the durations of the first n attempts.
RECURSIVE AttemptTime(_)
AttemptTime(n) == IF n = 0 THEN 0 ELSE AttemptTime(n - 1) + attempts[n].d

(* C17: the responseTime of a result is not negative and covers every      *)
(* attempt made for the URL: it is at least the sum of the durations of    *)
(* the attempts up to the one that produced the result, and of all         *)
(* attempts for an unreachable result.                                     *)
C17_ResponseTimeCoversAttempts ==
    (pc = "single" /\ batch # <<>> /\ batch[1].state = "returned") =>
        /\ batch[1].result[1].responseTime >= 0
        /\ batch[1].result[1].responseTime >= AttemptTime(Len(attempts))

\* The method value that names strategy k.
MethodOfStrategy(k) ==
    CASE strategies[k] = "HEAD request" -> "HEAD"
      [] strategies[k] = "GET request" -> "GET"
      [] strategies[k] = "with www" -> "with-www"
      [] strategies[k] = "without www" -> "without-www"
      [] strategies[k] = "switch protocol" -> "switch-protocol"

(* C18: the method of a result names what produced it: the strategy whose  *)
(* response was returned (HEAD, GET, with-www, without-www,                *)
(* switch-protocol), "validation" for a validation failure, "failed" for   *)
(* exhaustion.                                                             *)
C18_MethodNamesStrategy ==
    LET p == batch[1]
        r == p.result[1]
        n == Len(attempts)
    IN  (pc = "single" /\ batch # <<>> /\ p.state = "returned") =>
        /\ FailsValidation(p.url) => r.method = "validation"
        /\ (n > 0 /\ SuccessOutcome(attempts[n].outcome)) =>
             r.method = MethodOfStrategy(attempts[n].strat)
        /\ (n > 0 /\ ~SuccessOutcome(attempts[n].outcome)) => r.method = "failed"

----------------------------------------------------------------------------
(* Properties of checkUrlStatuses.                                         *)

Ceil(n, s) == (n + s - 1) \div s

\* The input indices whose call was started in batch b.
BatchMembers(b) == {a \in DOMAIN urls : startedIn[a] = b}

(* C6: the batch size is chosen once per call from the input count and     *)
(* stays: count <= 100 gives 5, 100 < count <= 500 gives 10, count > 500   *)
(* gives 15.                                                               *)
C6_BatchSizing ==
    pc \notin {"start", "idle"} =>
        /\ totalUrls = Len(urls)
        /\ batchSize = IF totalUrls <= 100 THEN 5
                       ELSE IF totalUrls <= 500 THEN 10 ELSE 15
        /\ totalUrls \in {50, 100} => batchSize = 5
        /\ totalUrls \in {101, 200, 500} => batchSize = 10
        /\ totalUrls \in {501, 1000} => batchSize = 15

C6_Witness ==
    /\ pc = "pause"
    /\ totalUrls = 501
    /\ batchSize = 15
    /\ batchNo = 3

(* C7: n URLs with batch size s run in exactly ceil(n/s) batches, each but *)
(* the last of s URLs and the last of n - s*(ceil(n/s)-1), the batches     *)
(* consecutive slices that cover the input, with never more than s calls   *)
(* in flight; 37 URLs run in 8 batches, the 8th of 2.                      *)
C7_BatchPartition ==
    LET n == Len(urls)
        s == batchSize
        k == Ceil(n, s)
    IN  pc \notin {"start", "idle"} =>
        /\ batchNo <= k
        /\ pc = "done" => batchNo = k
        /\ \A a \in DOMAIN urls :
             startedIn[a] = IF (a - 1) \div s + 1 <= batchNo
                            THEN (a - 1) \div s + 1 ELSE 0
        /\ \A b \in 1..batchNo :
             Cardinality(BatchMembers(b)) = IF b < k THEN s ELSE n - s * (k - 1)
        /\ pc = "await" =>
             /\ DOMAIN batch = 1..Cardinality(BatchMembers(batchNo))
             /\ \A j \in DOMAIN batch :
                  batch[j].url = urls[i + j] /\ startedIn[i + j] = batchNo
        /\ Cardinality({a \in DOMAIN urls : startedIn[a] > 0 /\ a \notin settled}) <= s
        /\ Cardinality(Fetching(batch)) <= s
        /\ (n = 37 /\ pc = "done") =>
             batchNo = 8 /\ Cardinality(BatchMembers(8)) = 2

C7_Witness ==
    /\ Len(urls) = 37
    /\ pc = "await"
    /\ batchNo = 8
    /\ Cardinality(Fetching(batch)) = 2

(* C8: no call of batch N+1 is started before every call of batch N has    *)
(* settled: whenever a call has been started, every call started in an     *)
(* earlier batch has returned its result.                                  *)
C8_BatchBarrier ==
    /\ \A a, b \in DOMAIN urls :
         (startedIn[b] >= 1 /\ startedIn[a] > startedIn[b]) => b \in settled
    /\ \A b \in settled :
         \/ b <= Len(results)
         \/ /\ pc = "await"
            /\ b - i \in DOMAIN batch
            /\ batch[b - i].state = "returned"
    /\ \A j \in Fetching(batch) : startedIn[i + j] = batchNo /\ i + j \notin settled

C8_Witness ==
    /\ batchNo = 2
    /\ Fetching(batch) # {}
    /\ \E k \in 1..5 : results[k].status = 0
    /\ \E k \in 1..5 : results[k].status = 200

(* C9: after every batch but the last exactly one pause is set before the  *)
(* next batch starts, of 500 ms when the batch took more than 10000 ms and *)
(* of 100 ms otherwise (10000 ms gives 100 ms); no pause follows the last  *)
(* batch, so k batches make k - 1 pauses.                                  *)
C9_InterBatchPause ==
    /\ pc = "pause" =>
         /\ delay = IF batchTime > 10000 THEN 500 ELSE 100
         /\ batchTime = 10000 => delay = 100
         /\ pauses = batchNo
         /\ Len(results) < Len(urls)
    /\ pc = "await" => pauses = batchNo - 1 /\ delay = 0
    /\ (pc = "done" /\ Len(urls) > 0) =>
         /\ pauses = batchNo - 1
         /\ pauses = Ceil(Len(urls), batchSize) - 1
         /\ delay = 0

C9_Witness ==
    /\ pc = "pause"
    /\ batchTime = 10000
    /\ delay = 100
    /\ pauses = 2

(* C10: over a non-empty input the progress reported after each batch      *)
(* never decreases, lies in 0..100, is 100 after the last batch, and is    *)
(* below 100 only while some URL has no result yet; this of the progress   *)
(* that checkUrlStatuses logs and of the progress that the page sets.      *)
C10_ProgressMonotone ==
    /\ Len(urls) > 0 =>
        /\ \A k \in DOMAIN progress :
             /\ progress[k] >= 0 /\ progress[k] <= 100
             /\ k > 1 => progress[k - 1] <= progress[k]
        /\ Len(progress) = IF pc \in {"pause", "done"} THEN batchNo
                           ELSE IF pc = "await" THEN batchNo - 1 ELSE 0
        /\ pc = "done" => progress[Len(progress)] = 100
        /\ (progress # <<>> /\ progress[Len(progress)] < 100) =>
             Len(results) < Len(urls)
    /\ client.pc \in {"calling", "finished"} =>
        LET shown == client.progress
            last == shown[Len(shown)]
        IN  /\ \A k \in DOMAIN shown :
                 /\ shown[k].num >= 0 /\ shown[k].num <= 100 * shown[k].den
                 /\ k > 1 => shown[k - 1].num * shown[k].den
                                <= shown[k].num * shown[k - 1].den
            /\ Len(shown) = 1 + client.i \div ClientBatchSize
            /\ client.pc = "finished" => last.num = 100 * last.den
            /\ last.num < 100 * last.den =>
                 Len(client.results) < Len(client.validUrls)

C10_Witness ==
    /\ client.pc = "finished"
    /\ Len(client.validUrls) = 20
    /\ Len(client.progress) = 3
    /\ client.progress[2].num * 2 = client.progress[2].den * 100
    /\ pc = "done"
    /\ progress = <<50, 100>>

C20_Termination ==
    <>(/\ pc = "done"
       /\ settled = DOMAIN urls
       /\ Fetching(batch) = {}
       /\ Len(results) = Len(urls))

C20_Witness ==
    /\ pc = "done"
    /\ Len(urls) = 6
    /\ pauses = 1
    /\ results[1].method = "failed"
    /\ results[6].method = "failed"

----------------------------------------------------------------------------
(* Properties of the page's classifier and summary, checked under          *)
(* SpecPage.                                                               *)

\* The group the classification rules give to a status and an error.
GroupOf(status, error) ==
    IF error # <<>> \/ status = 0 THEN "error"
    ELSE IF status >= 200 /\ status <= 299 THEN "live"
    ELSE IF status >= 300 /\ status <= 399 THEN "redirect"
    ELSE IF status >= 400 /\ status <= 499 THEN "deleted"
    ELSE "error"

(* C11: getStatusGroup gives every result one of the four groups, and the  *)
(* group depends on (status, error) alone: an error present or status 0    *)
(* gives error, before any range is looked at; otherwise 200..299 gives    *)
(* live, 300..399 redirect, 400..499 deleted and every other status error; *)
(* results equal in status and error get the same group whatever their     *)
(* url, finalUrl, responseTime and method.                                 *)
C11_Classification ==
    client.pc = "rendered" =>
        /\ DOMAIN client.groups = DOMAIN client.results
        /\ \A k \in DOMAIN client.results :
             /\ client.groups[k] \in {"live", "redirect", "deleted", "error"}
             /\ client.groups[k] =
                    GroupOf(client.results[k].status, client.results[k].error)
        /\ \A j, k \in DOMAIN client.results :
             ( /\ client.results[j].status = client.results[k].status
               /\ client.results[j].error = client.results[k].error )
             => client.groups[j] = client.groups[k]

C11_Witness ==
    /\ client.pc = "rendered"
    /\ Len(client.results) = 2
    /\ client.results[1].status = 200 /\ client.results[2].status = 200
    /\ client.results[1].error # <<>>
    /\ client.results[1].error = client.results[2].error
    /\ client.results[1].url # client.results[2].url
    /\ client.results[1].method # client.results[2].method
    /\ client.groups = <<"error", "error">>

\* The results without an error.
ErrorFree(rs) == SelectSeq(rs, LAMBDA r : r.error = <<>>)

(* C12: avgResponseTime is the mean of responseTime over the results       *)
(* without an error, rounded to the nearest integer, and 0 when there is   *)
(* no such result; the results with an error add nothing to the sum and    *)
(* nothing to the divisor, so the summary of the list and the summary of   *)
(* its error-free results show the same average.                           *)
C12_AverageExclusion ==
    client.pc = "rendered" =>
        LET ok == ErrorFree(client.results)
            avg == client.stats[1].avgResponseTime
        IN  /\ avg = IF ok = <<>> THEN 0
                     ELSE Round(TotalResponseTime(ok, 1, Len(ok), FALSE), Len(ok))
            /\ avg = stats(ok).avgResponseTime

C12_Witness ==
    /\ client.pc = "rendered"
    /\ Len(client.results) = 2
    /\ client.results[1].error # <<>> /\ client.results[1].responseTime = 120
    /\ client.results[2].error = <<>> /\ client.results[2].responseTime = 7
    /\ client.stats[1].avgResponseTime = 7

\* How many rows of the page are in group g.
RowsIn(g) == Cardinality({k \in DOMAIN client.groups : client.groups[k] = g})

(* C13: total is the length of the result list; live, redirect, deleted    *)
(* and error are the numbers of results that getStatusGroup puts in each   *)
(* group, and they add up to total; successRate is 100 * live / total      *)
(* rounded to the nearest integer, of the live results alone; all are 0    *)
(* for the empty list.                                                     *)
C13_StatsAggregation ==
    client.pc = "rendered" =>
        LET st == client.stats[1]
        IN  /\ st.total = Len(client.results)
            /\ st.live = RowsIn("live")
            /\ st.redirect = RowsIn("redirect")
            /\ st.deleted = RowsIn("deleted")
            /\ st.error = RowsIn("error")
            /\ st.live + st.redirect + st.deleted + st.error = st.total
            /\ st.successRate = IF st.total = 0 THEN 0
                                ELSE Round(100 * st.live, st.total)
            /\ st.total = 0 => st.avgResponseTime = 0

----------------------------------------------------------------------------
(* The order of the output, checked under Spec: every interleaving of the  *)
(* fetches of a batch.                                                     *)

(* C25: the results of a batch are appended when the batch has completed,  *)
(* after those of the batches before it, and within the batch the result   *)
(* of call j, the call made for input i + j, takes place i + j, whichever  *)
(* call completed first; nothing else changes the output.                  *)
C25_OutputOrder ==
    [][ /\ results' # results => pc = "await" /\ pc' \in {"pause", "done"}
        /\ (pc = "await" /\ pc' \in {"pause", "done"}) =>
             /\ Len(results) = i
             /\ Len(results') = i + Len(batch)
             /\ SubSeq(results', 1, i) = results
             /\ \A j \in DOMAIN batch :
                  /\ batch[j].url = urls[i + j]
                  /\ batch[j].state = "returned"
                  /\ results'[i + j] = batch[j].result[1] ]_vars

C25_Witness ==
    /\ pc = "done"
    /\ Len(urls) = 6
    /\ results[1].method = "failed"
    /\ results[1].responseTime > results[2].responseTime
    /\ results[2].method = "HEAD"
    /\ results[3].method = "validation"
    /\ results[6].method = "GET"

----------------------------------------------------------------------------
(* Properties of what a run exposes while it lasts, checked under          *)
(* SpecSched.                                                              *)

\* The results of a run are those of its first k batches of the given size.
ExposedAfter(rs, k, size, total) == Len(rs) = Min(k * size, total)

\* checkUrlStatuses: the list holds the results of the batches completed,
\* and the progress logged after batch k is the rounded share of them.
C24_ServerExposure ==
    /\ pc \in {"start", "await"} /\ batchNo <= 1 => results = <<>>
    /\ pc \in {"pause", "done"} /\ Len(urls) > 0 =>
         ExposedAfter(results, batchNo, batchSize, totalUrls)
    /\ \A k \in DOMAIN progress :
         progress[k] = Round(100 * Min(k * batchSize, totalUrls), totalUrls)

\* The page: the list shown holds the results of the chunks completed, and
\* the progress shown after chunk k is the rounded share of them.
C24_PageExposure ==
    client.pc \in {"calling", "finished"} =>
        LET shown == client.progress
            n == Len(client.validUrls)
        IN  /\ client.results = client.allResults
            /\ ExposedAfter(client.results, Len(shown) - 1, ClientBatchSize, n)
            /\ shown[1].num = 0
            /\ \A k \in DOMAIN shown :
                 /\ shown[k].num * n
                      = 100 * Min((k - 1) * ClientBatchSize, n) * shown[k].den
                 /\ shown[k].num
                      = Round(100 * Min((k - 1) * ClientBatchSize, n), n) * shown[k].den

(* C24: after each batch the progress reported is the rounded percentage   *)
(* of the URLs completed so far and the list exposed holds exactly the     *)
(* results of the batches completed so far, its length the number of URLs  *)
(* in them; at the start of a run the list is empty and the progress 0.    *)
C24_IncrementalExposure == C24_ServerExposure /\ C24_PageExposure

----------------------------------------------------------------------------
(* Properties of the variant strategies, checked under SpecProbe.          *)

\* The requests of the call so far, each with the strategy that made it.
Issued ==
    IF pc = "single" /\ batch # <<>>
    THEN {[strat |-> attempts[a].strat, req |-> attempts[a].req] : a \in DOMAIN attempts}
         \cup (IF batch[1].state = "fetching"
               THEN {[strat |-> batch[1].strat, req |-> batch[1].req[1]]}
               ELSE {})
    ELSE {}

\* The host of the normalised URL starts with 'www.'.
HostHasWww(urlToCheck) == StartsWith(ParseURL(urlToCheck).hostname, WWW)

\* The strategy issues a request only where it applies.
WwwApplies(x, urlToCheck) ==
    /\ strategies[x.strat] = "with www" => ~HostHasWww(urlToCheck)
    /\ strategies[x.strat] = "without www" => HostHasWww(urlToCheck)

(* C22: the with-www strategy issues a request only if the normalised host *)
(* does not start with 'www.', and the request is a GET of the same URL    *)
(* with 'www.' put before the host; the without-www strategy issues one    *)
(* only if the host does start with 'www.', and the request is a GET of    *)
(* the same URL with the leading 'www.' taken off the host.                *)
C22_WwwApplicability ==
    \A x \in Issued :
        LET urlToCheck == batch[1].urlToCheck
            u == ParseURL(urlToCheck)
            v == ParseURL(x.req.url)
        IN  /\ WwwApplies(x, urlToCheck)
            /\ strategies[x.strat] \in {"with www", "without www"} =>
                 /\ x.req.method = "GET"
                 /\ v.ok => /\ v.protocol = u.protocol
                            /\ v.port = u.port
                            /\ v.pathname = u.pathname
                            /\ v.search = u.search
            /\ strategies[x.strat] = "with www" =>
                 /\ v.ok
                 /\ v.hostname = <<WWW>> \o u.hostname
            /\ strategies[x.strat] = "without www" =>
                 x.req.url = <<SchemeOf(u.protocol)>> \o Tail(u.hostname) \o u.port
                                \o u.pathname \o u.search

(* C23: the fifth strategy issues a GET to the host of the normalised URL  *)
(* itself, not to a www-variant tried before, with the scheme flipped      *)
(* (https: to http:, http: to https:), and it is attempted for every valid *)
(* URL whose earlier strategies did not succeed.                           *)
C23_ProtocolSwitch ==
    (pc = "single" /\ batch # <<>>) =>
    LET p == batch[1]
        u == ParseURL(p.urlToCheck)
    IN  /\ \A x \in Issued :
             strategies[x.strat] = "switch protocol" =>
                LET v == ParseURL(x.req.url)
                IN  /\ x.req.method = "GET"
                    /\ v.ok
                    /\ v.hostname = u.hostname
                    /\ u.protocol = "https:" => v.protocol = "http:"
                    /\ u.protocol = "http:" => v.protocol = "https:"
        /\ (p.state = "returned" /\ p.log # <<>>
              /\ ~SuccessOutcome(attempts[Len(attempts)].outcome)) =>
                 /\ strategies[attempts[Len(attempts)].strat] = "switch protocol"
                 /\ p.result[1].method = "failed"
        /\ (p.state = "fetching" /\ attempts # <<>>
              /\ strategies[attempts[Len(attempts)].strat] \in {"with www", "without www"}) =>
                 strategies[p.strat] = "switch protocol"

C23_Witness ==
    /\ pc = "single"
    /\ batch # <<>>
    /\ batch[1].urlToCheck = <<HTTP, "a.com", ":8080", "/p", "?q">>
    /\ Len(attempts) = 4
    /\ strategies[attempts[4].strat] = "switch protocol"
    /\ attempts[4].req.url[1] = HTTPS
    /\ SuccessOutcome(attempts[4].outcome)
    /\ batch[1].state = "returned"

(* C26: a call of checkSingleUrl issues four requests at the most, a HEAD, *)
(* a GET, the GET of one www-variant and the GET of the protocol switch,   *)
(* never five, and none for a string that is no URL; so a batch of n calls *)
(* issues 4 * n at the most.                                               *)
C26_RequestBound ==
    /\ \A j \in DOMAIN batch :
         /\ Len(batch[j].log) <= 4
         /\ FailsValidation(batch[j].url) => batch[j].log = <<>>
         /\ \A k \in DOMAIN batch[j].log :
              batch[j].log[k].method = IF k = 1 THEN "HEAD" ELSE "GET"
    /\ Cardinality(Issued) <= 4
    /\ Cardinality({x \in Issued : strategies[x.strat] \in {"with www", "without www"}}) <= 1
    /\ \A x, y \in Issued : x.strat = y.strat => x = y
    /\ (\E x \in Issued : strategies[x.strat] = "switch protocol") =>
          /\ \E x \in Issued : strategies[x.strat] = "HEAD request"
          /\ \E x \in Issued : strategies[x.strat] = "GET request"
          /\ \E x \in Issued : strategies[x.strat] \in {"with www", "without www"}

C26_Witness ==
    /\ pc = "single"
    /\ batch # <<>>
    /\ batch[1].state = "returned"
    /\ batch[1].result[1].method = "failed"
    /\ Len(batch[1].log) = 4
    /\ Len(attempts) = 4
    /\ strategies[attempts[3].strat] = "without www"

----------------------------------------------------------------------------
(* Properties of checkUrl and of the scanning page, checked under          *)
(* SpecScan.                                                               *)

(* C21: a call of checkUrl never rejects: it resolves to a record with a   *)
(* boolean isMalicious and at most a reason, and when the flow threw, as   *)
(* it does on a string that is no URL, to isMalicious = false with the     *)
(* reason 'An error occurred during analysis.'.                            *)
C21_CheckUrlResolves ==
    \A c \in DOMAIN client.calls :
        LET call == client.calls[c]
        IN  /\ call.state \in {"pending", "returned"}
            /\ call.state = "returned" =>
                 /\ Len(call.result) = 1
                 /\ DOMAIN call.result[1] = {"isMalicious", "reason"}
                 /\ call.result[1].isMalicious \in BOOLEAN
                 /\ Len(call.result[1].reason) <= 1
                 /\ ~ParseURL(call.url).ok => call.threw
                 /\ call.threw =>
                      call.result[1] = [isMalicious |-> FALSE,
                                        reason |-> <<"An error occurred during analysis.">>]

C21_Witness ==
    \E c, d \in DOMAIN client.calls :
        /\ client.calls[c].state = "returned"
        /\ ~ParseURL(client.calls[c].url).ok
        /\ client.calls[d].state = "returned"
        /\ ParseURL(client.calls[d].url).ok
        /\ client.calls[d].threw
        /\ \E e \in DOMAIN client.calls :
             /\ client.calls[e].state = "returned"
             /\ client.calls[e].result[1].isMalicious

----------------------------------------------------------------------------
(* The shapes of the results a run returns and what the page makes of      *)
(* them, checked under SpecProbe for one call and under Spec for a list.   *)

\* The results returned so far: by the calls of the batch and by the run.
ReturnedResults ==
    {batch[j].result[1] : j \in {k \in DOMAIN batch : batch[k].state = "returned"}}
        \cup {results[k] : k \in DOMAIN results}

----------------------------------------------------------------------------
(* The two levels of batching of a run started from the page, checked      *)
(* under SpecSched.                                                        *)

\* The probes in flight: the calls of the batch that await a fetch.
InFlight == Cardinality(Fetching(batch))

\* While the page runs, the server call it awaits holds one chunk of at
\* most 10 consecutive valid URLs, probes them 5 at a time, and as long as
\* calls remain the results of whole chunks only have been collected.
C28_Chunks ==
    client.pc \in {"calling", "finished"} =>
        /\ Len(urls) >= 1
        /\ Len(urls) <= 10
        /\ pc # "start" => batchSize = 5
        /\ Len(batch) <= 5
        /\ InFlight <= 5
        /\ client.pc = "calling" =>
             /\ client.i % 10 = 0
             /\ client.i < Len(client.validUrls)
             /\ Len(client.allResults) = client.i
             /\ urls = Slice(client.validUrls, client.i, client.i + 10)

\* The page starts a server call only once the one before it has returned.
C28_OneCallAtATime ==
    [][ (client.pc = "calling" /\ client'.pc = "calling" /\ client'.i # client.i) =>
            /\ pc = "done"
            /\ Len(results) = Len(urls)
            /\ client'.i = client.i + 10
            /\ pc' = "start" ]_vars

(* C28: handleCheckStatuses slices the valid URLs into consecutive chunks  *)
(* of at most 10 and awaits one checkUrlStatuses call per chunk before it  *)
(* starts the next; so every server call receives at most 10 URLs, its     *)
(* batch size is always 5 whatever the total count, and at most 5 probes   *)
(* are in flight at any time.                                              *)
C28_TwoLevelBatching == []C28_Chunks /\ C28_OneCallAtATime

C28_Witness ==
    /\ client.pc = "calling"
    /\ Len(client.validUrls) = 501
    /\ client.i = 500
    /\ Len(urls) = 1
    /\ pc = "await"
    /\ batchSize = 5
    /\ InFlight = 1

----------------------------------------------------------------------------
(* Clear and the scans in flight, checked under SpecScan.                  *)

\* The calls of checkUrl that have not returned yet.
PendingCalls == {c \in DOMAIN client.calls : client.calls[c].state = "pending"}

\* handleClear leaves the map of flags empty, and an empty map gets a flag
\* only when a scan is started.
C29_ClearedStaysEmpty ==
    [][ /\ handleClear => client'.maliciousFlags = <<>>
        /\ (client.maliciousFlags = <<>> /\ client'.maliciousFlags # <<>>) =>
              client'.scans = client.scans + 1 ]_vars

\* A call that completes leaves the flag of its URL not loading, a flag
\* leaves the map only when the map is cleared, and with no call pending
\* no flag is loading.
C29_ScanSettles ==
    /\ [](PendingCalls = {} =>
            \A u \in DOMAIN client.maliciousFlags :
                ~client.maliciousFlags[u].isLoading)
    /\ [][ /\ \A c \in PendingCalls :
               client'.calls[c].state # "pending" =>
                  /\ client.calls[c].url \in DOMAIN client'.maliciousFlags
                  /\ ~client'.maliciousFlags[client.calls[c].url].isLoading
           /\ (\E u \in DOMAIN client.maliciousFlags :
                   u \notin DOMAIN client'.maliciousFlags) =>
                 client'.maliciousFlags = <<>> /\ client'.text = <<>> ]_vars

(* C29: after handleClear the map of flags is empty and stays empty until  *)
(* the next scan is started, also when calls of checkUrl of an earlier     *)
(* scan complete afterwards; and once every call of a scan has completed   *)
(* with no Clear in between, every scanned URL has a flag that is not      *)
(* loading.                                                                *)
C29_ClearVersusScan == C29_ClearedStaysEmpty /\ C29_ScanSettles

----------------------------------------------------------------------------
(* The URLs of the variant strategies, checked under SpecProbe.            *)

\* The URL of the parts given, as a string.
UrlOfParts(protocol, hostname, u) ==
    <<SchemeOf(protocol)>> \o hostname \o u.port \o u.pathname \o u.search

\* The scheme that is not the one given.
OtherProtocol(protocol) == IF protocol = "https:" THEN "http:" ELSE "https:"

(* C30: each URL requested by the with-www, without-www and                *)
(* protocol-switch strategies has the port, path and query of the          *)
(* normalised URL and differs from it only in the 'www.' before the host   *)
(* (with www, without www) or in the scheme (switch protocol).             *)
C30_VariantFidelity ==
    \A x \in Issued :
        LET u == ParseURL(batch[1].urlToCheck)
        IN  /\ strategies[x.strat] = "with www" =>
                 x.req.url = UrlOfParts(u.protocol, <<WWW>> \o u.hostname, u)
            /\ strategies[x.strat] = "without www" =>
                 x.req.url = UrlOfParts(u.protocol, Tail(u.hostname), u)
            /\ strategies[x.strat] = "switch protocol" =>
                 x.req.url = UrlOfParts(OtherProtocol(u.protocol), u.hostname, u)

====
